---- MODULE Spec2Model ----
(***************************************************************************)
(* State-machine model of pypolestar.polestar.PolestarApi: the cache       *)
(* table, the readers, async_init and the lock-guarded refresh cycle       *)
(* get_ev_data.  Coroutines are cut at their suspension points (the awaited *)
(* token calls and GraphQL calls); everything between two suspension points *)
(* is one atomic action, as on a single asyncio event loop.                 *)
(***************************************************************************)
EXTENDS Integers, Sequences, FiniteSets, TLC

VARIABLES
    now,                \* datetime.now(), in seconds
    ticks,              \* number of clock advances so far
    ops,                \* invocations and clock advances so far (bounds the run)
    inventory,          \* the account's vehicle list held by the vendor
    configured_vins,    \* self.configured_vins ({} stands for None)
    updating,           \* self.updating is held
    next_update,        \* self.next_update
    completed_at,       \* history: when a cycle last got through both sub-fetches
    completed_vin,      \* history: the vin argument of that cycle
    last_vin,           \* history: the vin argument of the get_ev_data started last
    latest_call_code,   \* self.latest_call_code   (BASE_URL)
    latest_call_code_2, \* self.latest_call_code_2 (BASE_URL_V2)
    access_token,       \* self.auth.access_token is not None
    token_expiry,       \* self.auth.token_expiry
    car_data_by_vin,    \* self.car_data_by_vin, in insertion order
    cache_data_by_vin,  \* self.cache_data_by_vin
    pc,                 \* position of each get_ev_data invocation
    rvin,               \* the vin argument of each get_ev_data invocation
    cyc,                \* per invocation: calls issued and sub-fetch outcomes of its cycle
    ipc,                \* position of async_init
    last,               \* the operation that ended last: how it ended, and why
    lastRead            \* the last reader call and what it returned

vars == <<now, ticks, ops, inventory, configured_vins, updating, next_update,
          completed_at, completed_vin, last_vin,
          latest_call_code, latest_call_code_2, access_token, token_expiry,
          car_data_by_vin, cache_data_by_vin, pc, rvin, cyc,
          ipc, last, lastRead>>

----------------------------------------------------------------------------
(* Bounds *)
MaxOps == 3
MaxPathLen == 3

(* Program constants *)
CACHE_TIME == 300
next_update_delay == 5
TOKEN_MARGIN == 300
TOKEN_LIFETIME == 300

Vins == {"V1", "V2"}
Procs == {1, 2}
(* The clock visits the instants 0, 295, 300, 595, 600, ...: what is        *)
(* stamped at one instant is inside the cool-down window and the TTL at    *)
(* that instant, at the end of the cool-down window one or two instants    *)
(* later, and at the end of the TTL two instants later.                    *)
TickSteps == <<CACHE_TIME - next_update_delay, next_update_delay>>

CAR_INFO_DATA == "getConsumerCarsV2"
ODO_METER_DATA == "getOdometerData"
BATTERY_DATA == "getBatteryData"
Kinds == {CAR_INFO_DATA, ODO_METER_DATA, BATTERY_DATA}
BASE_URL == "BASE_URL"
BASE_URL_V2 == "BASE_URL_V2"

----------------------------------------------------------------------------
(* Python values.  An optional instant or status code is <<>> (None) or    *)
(* <<x>>; a decoded JSON value is tagged with its type.                    *)
None == <<>>
Some(x) == <<x>>

PyNone == [t |-> "none"]
PyFalse == [t |-> "bool", v |-> FALSE]
PyInt(n) == [t |-> "int", v |-> n]
PyStr(s) == [t |-> "str", v |-> s]
PyDict(f) == [t |-> "dict", m |-> f]
isdict(x) == x.t = "dict"

(* Strings are sequences of characters, so that split("/") is computed. *)
Chars == {"a", "b", "/"}
RECURSIVE StrUpTo(_)
StrUpTo(n) == IF n = 0 THEN {<<>>}
              ELSE LET S == StrUpTo(n - 1)
                   IN  S \cup {Append(s, c) : s \in {x \in S : Len(x) = n - 1}, c \in Chars}
FieldNames == StrUpTo(MaxPathLen)

Ka == <<"a">>
Kb == <<"b">>
Kvin == <<"v">>

(* Sub-objects a successful telemetry response can carry under its key. *)
Payloads == {PyNone, PyDict(Ka :> PyDict(Kb :> PyInt(5)))}

(* The inventory record of one vehicle. *)
CarRecord(vin) == PyDict((Kvin :> PyStr(vin)) @@ (Ka :> PyDict(Kb :> PyInt(1))))

----------------------------------------------------------------------------
(* str.split("/") *)
RECURSIVE splitFrom(_, _)
splitFrom(s, cur) ==
    IF s = <<>> THEN <<cur>>
    ELSE IF Head(s) = "/" THEN <<cur>> \o splitFrom(Tail(s), <<>>)
    ELSE splitFrom(Tail(s), Append(cur, Head(s)))
split(s) == splitFrom(s, <<>>)

contains_slash(s) == \E i \in 1..Len(s) : s[i] = "/"

(* a loop that indexes without looking: data[key] raises on a value that *)
(* is no dict or has no such key                                         *)
RECURSIVE walk_unguarded(_, _)
walk_unguarded(keys, data) ==
    IF keys = <<>> THEN data
    ELSE IF isdict(data) /\ Head(keys) \in DOMAIN data.m
         THEN walk_unguarded(Tail(keys), data.m[Head(keys)])
         ELSE [t |-> "raise", v |-> "KeyError"]

(* the for loop of _get_field_name_value *)
RECURSIVE walk(_, _)
walk(keys, data) ==
    IF keys = <<>> THEN data
    ELSE IF isdict(data) /\ Head(keys) \in DOMAIN data.m
         THEN walk(Tail(keys), data.m[Head(keys)])
         ELSE PyNone

(* field_name is None (<<>>) or <<string>> *)
_get_field_name_value(field_name, data) ==
    IF field_name = None \/ data = PyNone THEN PyNone
    ELSE LET name == field_name[1] IN
         IF contains_slash(name) THEN walk(split(name), data)
         ELSE IF isdict(data) /\ name \in DOMAIN data.m THEN data.m[name]
         ELSE PyNone

----------------------------------------------------------------------------
(* Dictionaries.  cache_data_by_vin is a defaultdict(dict): vin -> query   *)
(* -> entry; reading cache_data_by_vin[vin] inserts an empty dict.          *)
EmptyDict == [k \in {} |-> PyNone]
dict_set(d, k, x) == [j \in DOMAIN d \cup {k} |-> IF j = k THEN x ELSE d[j]]

defaultdict_getitem(cache, vin) ==
    IF vin \in DOMAIN cache THEN cache ELSE dict_set(cache, vin, EmptyDict)

CacheEntry(data, timestamp) == [data |-> data, timestamp |-> timestamp]

cache_store(cache, vin, query, data, timestamp) ==
    LET c == defaultdict_getitem(cache, vin)
    IN  dict_set(c, vin, dict_set(c[vin], query, CacheEntry(data, timestamp)))

HasEntry(cache, vin, query) == vin \in DOMAIN cache /\ query \in DOMAIN cache[vin]

(* self.car_data_by_vin[vin] = data on an insertion-ordered dict *)
ordered_set(d, vin, data) ==
    IF \E i \in 1..Len(d) : d[i].vin = vin
    THEN [i \in 1..Len(d) |-> IF d[i].vin = vin THEN [vin |-> vin, data |-> data] ELSE d[i]]
    ELSE Append(d, [vin |-> vin, data |-> data])

vins == [i \in 1..Len(car_data_by_vin) |-> car_data_by_vin[i].vin]

----------------------------------------------------------------------------
(* Readers.  query and field_name are None (<<>>) or <<x>>. *)
Raised(e) == [t |-> "raise", v |-> e]

(* an entry that is still served at the very end of its TTL *)
ttl_fresh_inclusive(timestamp, t) == timestamp + CACHE_TIME >= t

(* cache_entry["timestamp"] + self.cache_ttl > datetime.now() *)
ttl_fresh(timestamp, t) == timestamp + CACHE_TIME > t

get_cache_data(cache, t, vin, query, field_name, skip_cache) ==
    IF query = None THEN PyNone
    ELSE IF DOMAIN cache # {} /\ HasEntry(cache, vin, query[1])
         THEN LET cache_entry == cache[vin][query[1]]
                  data == cache_entry.data
              IN  IF data # PyNone /\ (skip_cache \/ ttl_fresh(cache_entry.timestamp, t))
                  THEN _get_field_name_value(field_name, data)
                  ELSE PyNone
         ELSE PyNone

get_cache_data_effect(cache, vin, query) ==
    IF query = None \/ DOMAIN cache = {} THEN cache
    ELSE defaultdict_getitem(cache, vin)

get_latest_data(cache, vin, query, field_name) ==
    IF DOMAIN cache = {} THEN PyNone
    ELSE IF query = None \/ ~HasEntry(cache, vin, query[1]) THEN Raised("KeyError")
    ELSE LET data == cache[vin][query[1]].data
         IN  IF data = PyNone THEN PyFalse
             ELSE _get_field_name_value(field_name, data)

get_latest_data_effect(cache, vin) ==
    IF DOMAIN cache = {} THEN cache ELSE defaultdict_getitem(cache, vin)

----------------------------------------------------------------------------
(* Collaborators.  A token call ends with a token, with no token, by       *)
(* raising PolestarAuthException, or by raising something else (a          *)
(* transport error).  A GraphQL call ends with a result, classified        *)
(* Unauthorized or ApiFailure, or with another exception re-raised as is.  *)
TokenOutcomes == {"ok", "notoken", "AuthFailure", "Other"}
AuthInitOutcomes == {"ok", "AuthFailure", "Other"}
CallOutcomes == {"ok", "Unauthorized", "ApiFailure", "Other"}
IsRaise(o) == o \in {"AuthFailure", "Other"}

auth_token_after(o, cur) == IF o = "ok" THEN TRUE ELSE IF o = "notoken" THEN FALSE ELSE cur
auth_expiry_after(o, cur, t) ==
    IF o = "ok" THEN Some(t + TOKEN_LIFETIME) ELSE IF o = "notoken" THEN None ELSE cur

(* a recorder that does not look at the url *)
_set_latest_call_code_one(codes, url, code) == [codes EXCEPT !.c1 = Some(code)]

_set_latest_call_code(codes, url, code) ==
    IF url = BASE_URL THEN [codes EXCEPT !.c1 = Some(code)]
    ELSE [codes EXCEPT !.c2 = Some(code)]

(* the status _query_graph_ql records for an outcome; "Other" records none *)
_query_graph_ql_code(codes, url, o) ==
    IF o = "ok" THEN _set_latest_call_code(codes, url, 200)
    ELSE IF o = "Unauthorized" THEN _set_latest_call_code(codes, url, 401)
    ELSE IF o = "ApiFailure" THEN _set_latest_call_code(codes, url, 500)
    ELSE codes

Codes == [c1 |-> latest_call_code, c2 |-> latest_call_code_2]
SetCodes(codes) ==
    /\ latest_call_code' = codes.c1
    /\ latest_call_code_2' = codes.c2

----------------------------------------------------------------------------
(* async_init *)
(* The account's vehicle list, and the vins argument of the constructor. *)
Accounts == {[inventory |-> <<>>, vins |-> {}],
             [inventory |-> <<"V2", "V1">>, vins |-> {}],
             [inventory |-> <<"V1", "V2">>, vins |-> {"V1"}],
             [inventory |-> <<"V2", "V1">>, vins |-> {"V1"}]}

(* an inventory fetcher that hands an empty list on *)
_get_vehicle_data_soft(cars) ==
    [t |-> "list", v |-> IF cars = None THEN <<>> ELSE cars[1]]

(* result[CAR_INFO_DATA] of the inventory query: None or <<list>> *)
InventoryResults(inv) == {None, Some([i \in 1..Len(inv) |-> CarRecord(inv[i])])}

(* _get_vehicle_data after a successful query: raises or returns the list *)
_get_vehicle_data(cars) ==
    IF cars = None \/ Len(cars[1]) = 0 THEN Raised("NoDataFailure")
    ELSE [t |-> "list", v |-> cars[1]]

(* a filter that lets every vehicle through *)
vin_unfiltered(cfg, vin) == FALSE

(* self.configured_vins and vin not in self.configured_vins *)
vin_filtered(cfg, vin) == cfg # {} /\ vin \notin cfg

RECURSIVE init_loop(_, _, _, _, _)
init_loop(car_data, cfg, cars, cache, t) ==
    IF car_data = <<>> THEN [cars |-> cars, cache |-> cache]
    ELSE LET data == Head(car_data)
             vin == data.m[Kvin].v
         IN  IF vin_filtered(cfg, vin)
             THEN init_loop(Tail(car_data), cfg, cars, cache, t)
             ELSE init_loop(Tail(car_data), cfg, ordered_set(cars, vin, data),
                            cache_store(cache, vin, CAR_INFO_DATA, data, t), t)

RefreshVars == <<updating, next_update, completed_at, completed_vin, last_vin, pc, rvin, cyc>>
InitVars == <<ipc>>

(* how an operation ended: how is "returned" or "raised" *)
Result(op, how, why) == [op |-> op, how |-> how, why |-> why]
NoResult == Result("none", "none", "none")
AuthVars == <<access_token, token_expiry>>
CodeVars == <<latest_call_code, latest_call_code_2>>
EnvVars == <<now, ticks, inventory, configured_vins>>
RunVars == <<ops>>

(* The caller awaits async_init: it does not overlap a get_ev_data. *)
InitStart ==
    /\ ipc = "idle"
    /\ \A p \in Procs : pc[p] = "idle"
    /\ ops < MaxOps
    /\ ops' = ops + 1
    /\ ipc' = "auth_init"
    /\ UNCHANGED <<EnvVars, last, RefreshVars, AuthVars, CodeVars, car_data_by_vin,
                   cache_data_by_vin, lastRead>>

(* await self.auth.async_init() *)
InitAuthDone(o) ==
    /\ ipc = "auth_init"
    /\ UNCHANGED RunVars
    /\ IF o = "ok"
       THEN ipc' = "get_token" /\ UNCHANGED last
       ELSE ipc' = "idle" /\ last' = Result("async_init", "raised", o)
    /\ UNCHANGED <<EnvVars, RefreshVars, AuthVars, CodeVars, car_data_by_vin,
                   cache_data_by_vin, lastRead>>

(* await self.auth.get_token(), then the access_token check *)
InitTokenDone(o) ==
    /\ ipc = "get_token"
    /\ UNCHANGED RunVars
    /\ access_token' = auth_token_after(o, access_token)
    /\ token_expiry' = auth_expiry_after(o, token_expiry, now)
    /\ IF IsRaise(o)
       THEN ipc' = "idle" /\ last' = Result("async_init", "raised", o)
       ELSE IF ~access_token'
            THEN ipc' = "idle" /\ last' = Result("async_init", "returned", "no_token")
            ELSE ipc' = "vehicle" /\ UNCHANGED last
    /\ UNCHANGED <<EnvVars, RefreshVars, CodeVars, car_data_by_vin,
                   cache_data_by_vin, lastRead>>

(* await self._get_vehicle_data(), then the loop over the cars *)
InitVehicleDone(o, cars) ==
    /\ ipc = "vehicle"
    /\ UNCHANGED RunVars
    /\ ipc' = "idle"
    /\ SetCodes(_query_graph_ql_code(Codes, BASE_URL, o))
    /\ IF o # "ok"
       THEN /\ last' = Result("async_init", "raised", o)
            /\ UNCHANGED <<car_data_by_vin, cache_data_by_vin>>
       ELSE LET r == _get_vehicle_data(cars) IN
            IF r.t = "raise"
            THEN /\ last' = Result("async_init", "raised", r.v)
                 /\ UNCHANGED <<car_data_by_vin, cache_data_by_vin>>
            ELSE IF Len(r.v) = 0
            THEN /\ last' = Result("async_init", "returned", "no_cars")
                 /\ UNCHANGED <<car_data_by_vin, cache_data_by_vin>>
            ELSE LET l == init_loop(r.v, configured_vins, car_data_by_vin,
                                    cache_data_by_vin, now)
                 IN  /\ last' = Result("async_init", "returned", "done")
                     /\ car_data_by_vin' = l.cars
                     /\ cache_data_by_vin' = l.cache
    /\ UNCHANGED <<EnvVars, RefreshVars, AuthVars, lastRead>>

----------------------------------------------------------------------------
(* get_ev_data *)
Snap(cache, vin, query) ==
    IF HasEntry(cache, vin, query) THEN Some(cache[vin][query]) ELSE None

NewCycle(cache, vin) ==
    [forced |-> 0, reauth |-> 0, odo |-> 0, bat |-> 0, unauth |-> 0,
     sodo |-> "none", sbat |-> "none",
     pre_odo |-> Snap(cache, vin, ODO_METER_DATA),
     pre_bat |-> Snap(cache, vin, BATTERY_DATA)]

NoVin == "-"
NoCycle == [forced |-> 0, reauth |-> 0, odo |-> 0, bat |-> 0, unauth |-> 0,
            sodo |-> "none", sbat |-> "none", pre_odo |-> None, pre_bat |-> None]

(* a lock that never refuses *)
acquire_always(held) == TRUE

(* self.updating.acquire(blocking=False) *)
acquire(held) == ~held

(* the window measured from the wrong end *)
throttle_late(nu, t) == nu # None /\ nu[1] > t + next_update_delay

(* self.next_update is not None and self.next_update > datetime.now() *)
throttle_active(nu, t) == nu # None /\ nu[1] > t

(* a margin that also forces the refresh at exactly 300 seconds *)
token_expiring_at_margin(expiry, t) == expiry[1] - t <= TOKEN_MARGIN

(* (self.auth.token_expiry - datetime.now()).total_seconds() < 300 *)
token_expiring(expiry, t) == expiry[1] - t < TOKEN_MARGIN

(* a call_api that swallows Unauthorized like any other failure *)
call_api_no_token(o) == IF o = "Other" THEN "raise" ELSE "next"

(* call_api: what follows the outcome of func() *)
call_api(o) ==
    IF o = "ok" THEN "next"
    ELSE IF o = "Unauthorized" THEN "get_token"
    ELSE IF o = "ApiFailure" THEN "next"
    ELSE "raise"

(* call_api: what follows the outcome of the get_token() of its handler *)
call_api_handler(o) == IF IsRaise(o) THEN "raise" ELSE "next"

(* a fetcher that stores an empty entry when its query failed *)
fetch_store_wipe(cache, o, vin, query, data, t) ==
    cache_store(cache, vin, query, IF o = "ok" THEN data ELSE PyNone, t)

(* a fetcher that replaces the vin's dict by one holding only its entry *)
fetch_store_replace(cache, o, vin, query, data, t) ==
    IF o = "ok"
    THEN dict_set(cache, vin, dict_set(EmptyDict, query, CacheEntry(data, t)))
    ELSE cache

(* _get_odometer_data / _get_battery_data: the store after the query *)
fetch_store(cache, o, vin, query, data, t) ==
    IF o = "ok" THEN cache_store(cache, vin, query, data, t) ELSE cache

(* the status codes after one sub-fetch went through call_api *)
call_api_codes(codes, o) ==
    LET c == _query_graph_ql_code(codes, BASE_URL_V2, o)
    IN  IF o = "ApiFailure" THEN _set_latest_call_code(c, BASE_URL_V2, 500) ELSE c

(* the except clause around the token check releases the lock only for *)
(* PolestarAuthException *)
token_check_releases(o) == o = "AuthFailure"

(* the invocation is over: its locals are gone *)
Ended(p, how, why) ==
    /\ pc' = [pc EXCEPT ![p] = "idle"]
    /\ last' = Result("get_ev_data", how, why)
    /\ rvin' = [rvin EXCEPT ![p] = NoVin]
    /\ cyc' = [cyc EXCEPT ![p] = NoCycle]

(* the cycle record once a sub-fetch has ended with outcome o *)
Seen(c, sub, o) ==
    [c EXCEPT ![sub] = o, !.unauth = IF o = "Unauthorized" THEN @ + 1 ELSE @]

(* the invocation suspends on a call it has just issued *)
Await(p, at, c) ==
    /\ pc' = [pc EXCEPT ![p] = at]
    /\ UNCHANGED last
    /\ cyc' = [cyc EXCEPT ![p] = c]

(* a get_ev_data whose lock and cool-down are kept per vin *)
Start_per_vin(p, vin) ==
    /\ pc[p] = "idle"
    /\ ipc = "idle"
    /\ ops < MaxOps
    /\ ops' = ops + 1
    /\ IF ~acquire(updating) /\ (\E q \in Procs : rvin[q] = vin)
       THEN /\ Ended(p, "returned", "busy")
            /\ UNCHANGED <<updating, CodeVars>>
       ELSE IF throttle_active(next_update, now) /\ completed_vin = vin
       THEN /\ Ended(p, "returned", "throttled")
            /\ updating' = FALSE
            /\ UNCHANGED CodeVars
       ELSE IF token_expiry = None
       THEN /\ Ended(p, "returned", "no_expiry")
            /\ updating' = FALSE
            /\ SetCodes(_set_latest_call_code(Codes, BASE_URL, 500))
       ELSE IF token_expiring(token_expiry, now)
       THEN /\ Await(p, "token", [NewCycle(cache_data_by_vin, vin) EXCEPT !.forced = 1])
            /\ rvin' = [rvin EXCEPT ![p] = vin]
            /\ updating' = TRUE
            /\ UNCHANGED CodeVars
       ELSE /\ Await(p, "odo", [NewCycle(cache_data_by_vin, vin) EXCEPT !.odo = 1])
            /\ rvin' = [rvin EXCEPT ![p] = vin]
            /\ updating' = TRUE
            /\ UNCHANGED CodeVars
    /\ last_vin' = vin
    /\ UNCHANGED <<EnvVars, InitVars, AuthVars, next_update, completed_at, completed_vin,
                   car_data_by_vin, cache_data_by_vin, lastRead>>

(* get_ev_data up to its first suspension point *)
Start(p, vin) ==
    /\ pc[p] = "idle"
    /\ ipc = "idle"
    /\ ops < MaxOps
    /\ ops' = ops + 1
    /\ IF ~acquire(updating)
       THEN /\ Ended(p, "returned", "busy")
            /\ UNCHANGED <<updating, CodeVars>>
       ELSE IF throttle_active(next_update, now)
       THEN /\ Ended(p, "returned", "throttled")
            /\ updating' = FALSE
            /\ UNCHANGED CodeVars
       ELSE IF token_expiry = None
       THEN /\ Ended(p, "returned", "no_expiry")
            /\ updating' = FALSE
            /\ SetCodes(_set_latest_call_code(Codes, BASE_URL, 500))
       ELSE IF token_expiring(token_expiry, now)
       THEN /\ Await(p, "token", [NewCycle(cache_data_by_vin, vin) EXCEPT !.forced = 1])
            /\ rvin' = [rvin EXCEPT ![p] = vin]
            /\ updating' = TRUE
            /\ UNCHANGED CodeVars
       ELSE /\ Await(p, "odo", [NewCycle(cache_data_by_vin, vin) EXCEPT !.odo = 1])
            /\ rvin' = [rvin EXCEPT ![p] = vin]
            /\ updating' = TRUE
            /\ UNCHANGED CodeVars
    /\ last_vin' = vin
    /\ UNCHANGED <<EnvVars, InitVars, AuthVars, next_update, completed_at, completed_vin,
                   car_data_by_vin, cache_data_by_vin, lastRead>>

(* await self.auth.get_token(refresh=True) returns or raises *)
TokenDone(p, o) ==
    /\ pc[p] = "token"
    /\ UNCHANGED RunVars
    /\ access_token' = auth_token_after(o, access_token)
    /\ token_expiry' = auth_expiry_after(o, token_expiry, now)
    /\ IF ~IsRaise(o)
       THEN /\ Await(p, "odo", [cyc[p] EXCEPT !.odo = @ + 1])
            /\ UNCHANGED <<rvin, updating, CodeVars>>
       ELSE /\ (IF o = "AuthFailure" THEN Ended(p, "returned", "auth_abort")
                                     ELSE Ended(p, "raised", o))
            /\ updating' = IF token_check_releases(o) THEN FALSE ELSE updating
            /\ SetCodes(IF o = "AuthFailure"
                        THEN _set_latest_call_code(Codes, BASE_URL, 500) ELSE Codes)
    /\ UNCHANGED <<EnvVars, InitVars, next_update, completed_at, completed_vin,
                   last_vin, car_data_by_vin, cache_data_by_vin, lastRead>>

(* a cycle that ends without arming the cool-down *)
Complete_unarmed(p) ==
    /\ Ended(p, "returned", "completed")
    /\ UNCHANGED <<next_update, completed_at, completed_vin>>
    /\ updating' = FALSE

(* self.next_update = datetime.now() + self.next_update_delay; finally release *)
Complete(p) ==
    /\ Ended(p, "returned", "completed")
    /\ next_update' = Some(now + next_update_delay)
    /\ completed_at' = Some(now)
    /\ completed_vin' = rvin[p]
    /\ updating' = FALSE

(* an exception leaves the try/finally around the two sub-fetches *)
Escape(p, o) ==
    /\ Ended(p, "raised", o)
    /\ updating' = FALSE
    /\ UNCHANGED <<next_update, completed_at, completed_vin>>

(* await call_api(lambda: self._get_odometer_data(vin)): the query ends *)
OdoDone(p, o, data) ==
    /\ pc[p] = "odo"
    /\ UNCHANGED RunVars
    /\ cache_data_by_vin' = fetch_store(cache_data_by_vin, o, rvin[p], ODO_METER_DATA, data, now)
    /\ SetCodes(call_api_codes(Codes, o))
    /\ CASE call_api(o) = "next" ->
              /\ Await(p, "bat", [Seen(cyc[p], "sodo", o) EXCEPT !.bat = @ + 1])
              /\ UNCHANGED <<rvin, updating, next_update, completed_at, completed_vin>>
         [] call_api(o) = "get_token" ->
              /\ Await(p, "odo_reauth", [Seen(cyc[p], "sodo", o) EXCEPT !.reauth = @ + 1])
              /\ UNCHANGED <<rvin, updating, next_update, completed_at, completed_vin>>
         [] OTHER -> Escape(p, o)
    /\ UNCHANGED <<EnvVars, InitVars, AuthVars, car_data_by_vin, lastRead, last_vin>>

(* the get_token() of call_api's handler ends, odometer sub-fetch *)
OdoReauthDone(p, o) ==
    /\ pc[p] = "odo_reauth"
    /\ UNCHANGED RunVars
    /\ access_token' = auth_token_after(o, access_token)
    /\ token_expiry' = auth_expiry_after(o, token_expiry, now)
    /\ IF call_api_handler(o) = "next"
       THEN /\ Await(p, "bat", [cyc[p] EXCEPT !.bat = @ + 1])
            /\ UNCHANGED <<rvin, updating, next_update, completed_at, completed_vin>>
       ELSE Escape(p, o)
    /\ UNCHANGED <<EnvVars, InitVars, CodeVars, car_data_by_vin,
                   cache_data_by_vin, lastRead, last_vin>>

(* await call_api(lambda: self._get_battery_data(vin)): the query ends *)
BatDone(p, o, data) ==
    /\ pc[p] = "bat"
    /\ UNCHANGED RunVars
    /\ cache_data_by_vin' = fetch_store(cache_data_by_vin, o, rvin[p], BATTERY_DATA, data, now)
    /\ SetCodes(call_api_codes(Codes, o))
    /\ CASE call_api(o) = "next" -> Complete(p)
         [] call_api(o) = "get_token" ->
              /\ Await(p, "bat_reauth", [Seen(cyc[p], "sbat", o) EXCEPT !.reauth = @ + 1])
              /\ UNCHANGED <<rvin, updating, next_update, completed_at, completed_vin>>
         [] OTHER -> Escape(p, o)
    /\ UNCHANGED <<EnvVars, InitVars, AuthVars, car_data_by_vin, lastRead, last_vin>>

(* the get_token() of call_api's handler ends, battery sub-fetch *)
BatReauthDone(p, o) ==
    /\ pc[p] = "bat_reauth"
    /\ UNCHANGED RunVars
    /\ access_token' = auth_token_after(o, access_token)
    /\ token_expiry' = auth_expiry_after(o, token_expiry, now)
    /\ IF call_api_handler(o) = "next"
       THEN Complete(p)
       ELSE Escape(p, o)
    /\ UNCHANGED <<EnvVars, InitVars, CodeVars, car_data_by_vin,
                   cache_data_by_vin, lastRead, last_vin>>

----------------------------------------------------------------------------
(* Reader calls and the clock *)
(* keep: the caller keeps the returned value (lastRead) or drops it *)
NoRead == [op |-> "none"]
ReadQueries == {None} \cup {Some(k) : k \in Kinds}
ReadFieldNames == {None} \cup {Some(f) : f \in FieldNames}

ReadCache(vin, query, field_name, skip_cache, keep) ==
    /\ lastRead' = IF keep
                   THEN [op |-> "get_cache_data", vin |-> vin, query |-> query,
                         field_name |-> field_name, skip_cache |-> skip_cache,
                         ret |-> get_cache_data(cache_data_by_vin, now, vin, query,
                                                field_name, skip_cache)]
                   ELSE lastRead
    /\ cache_data_by_vin' = get_cache_data_effect(cache_data_by_vin, vin, query)
    /\ UNCHANGED <<EnvVars, RunVars, InitVars, AuthVars, CodeVars, RefreshVars,
                   car_data_by_vin, last>>

ReadLatest(vin, query, field_name, keep) ==
    /\ lastRead' = IF keep
                   THEN [op |-> "get_latest_data", vin |-> vin, query |-> query,
                         field_name |-> field_name, skip_cache |-> FALSE,
                         ret |-> get_latest_data(cache_data_by_vin, vin, query, field_name)]
                   ELSE lastRead
    /\ cache_data_by_vin' = get_latest_data_effect(cache_data_by_vin, vin)
    /\ UNCHANGED <<EnvVars, RunVars, InitVars, AuthVars, CodeVars, RefreshVars,
                   car_data_by_vin, last>>

Tick ==
    /\ ops < MaxOps
    /\ ops' = ops + 1
    /\ ticks' = ticks + 1
    /\ now' = now + TickSteps[(ticks % Len(TickSteps)) + 1]
    /\ UNCHANGED <<inventory, configured_vins, InitVars, last, AuthVars, CodeVars,
                   RefreshVars, car_data_by_vin, cache_data_by_vin, lastRead>>

----------------------------------------------------------------------------
Init ==
    /\ now = 0
    /\ ticks = 0
    /\ ops = 0
    /\ \E a \in Accounts : inventory = a.inventory /\ configured_vins = a.vins
    /\ updating = FALSE
    /\ next_update = None
    /\ completed_at = None
    /\ completed_vin = NoVin
    /\ last_vin = NoVin
    /\ latest_call_code = None
    /\ latest_call_code_2 = None
    /\ access_token = FALSE
    /\ token_expiry = None
    /\ car_data_by_vin = <<>>
    /\ cache_data_by_vin = EmptyDict
    /\ pc = [p \in Procs |-> "idle"]
    /\ rvin = [p \in Procs |-> NoVin]
    /\ cyc = [p \in Procs |-> NoCycle]
    /\ ipc = "idle"
    /\ last = NoResult
    /\ lastRead = NoRead

Next ==
    \/ InitStart
    \/ \E o \in AuthInitOutcomes : InitAuthDone(o)
    \/ \E o \in TokenOutcomes : InitTokenDone(o)
    \/ \E o \in CallOutcomes, cars \in InventoryResults(inventory) : InitVehicleDone(o, cars)
    \/ \E p \in Procs, vin \in Vins : Start(p, vin)
    \/ \E p \in Procs, o \in TokenOutcomes : TokenDone(p, o)
    \/ \E p \in Procs, o \in CallOutcomes, data \in Payloads : OdoDone(p, o, data)
    \/ \E p \in Procs, o \in TokenOutcomes : OdoReauthDone(p, o)
    \/ \E p \in Procs, o \in CallOutcomes, data \in Payloads : BatDone(p, o, data)
    \/ \E p \in Procs, o \in TokenOutcomes : BatReauthDone(p, o)
    \/ Tick

Spec == Init /\ [][Next]_vars

----------------------------------------------------------------------------
(* Properties of the refresh coordinator *)
Refreshing == {p \in Procs : pc[p] # "idle"}
IsLast(op, how, why) == last = Result(op, how, why)

(* a step in which some get_ev_data invocation starts *)
StartStep == ops' = ops + 1 /\ ticks' = ticks /\ ipc' = ipc

(* a step that issues no token call and no GraphQL call: no invocation *)
(* moves to a suspension point                                         *)
NoCallIssued == \A p \in Procs : pc'[p] = pc[p] \/ pc'[p] = "idle"

AtMostOneRefreshing ==
    /\ Cardinality(Refreshing) <= 1
    /\ Refreshing # {} => updating

(* C1: at most one get_ev_data invocation is ever between acquiring and    *)
(* releasing the lock, and an invocation that starts while a cycle is in   *)
(* flight returns at once, issuing no call and leaving the cache table,    *)
(* next_update and the auth state as they were.                            *)
C1_Coalescing ==
    /\ []AtMostOneRefreshing
    /\ [][(StartStep /\ Refreshing # {}) =>
            /\ pc' = pc
            /\ IsLast("get_ev_data", "returned", "busy")'
            /\ UNCHANGED <<cache_data_by_vin, next_update, AuthVars, updating>>]_vars

C1_Witness ==
    /\ IsLast("get_ev_data", "returned", "busy")
    /\ Refreshing # {}

(* C2: a get_ev_data that starts strictly before the completion time of    *)
(* the last cycle plus the cool-down issues no call, leaves the cache      *)
(* table and next_update as they were and returns with the lock free.      *)
InCoolDown == completed_at # None /\ now < completed_at[1] + next_update_delay

C2_Throttle ==
    [][(StartStep /\ InCoolDown) =>
         /\ NoCallIssued
         /\ pc' = pc
         /\ UNCHANGED <<cache_data_by_vin, next_update, AuthVars>>
         /\ ~updating']_vars

C2_Witness ==
    /\ IsLast("get_ev_data", "returned", "throttled")
    /\ InCoolDown
    /\ ~updating

(* C3: get_ev_data never raises to its caller, whatever the token calls    *)
(* and the two sub-fetches do (success, AuthFailure, Unauthorized,         *)
(* ApiFailure): no invocation ends by raising one of these failures.       *)
C3_NeverRaises ==
    ~(/\ last.op = "get_ev_data"
      /\ last.how = "raised"
      /\ last.why \in {"AuthFailure", "Unauthorized", "ApiFailure"})

(* C4: whenever no get_ev_data invocation is executing, the lock is free,  *)
(* however the invocations that acquired it ended.                         *)
C4_LockReleased == Refreshing = {} => ~updating

(* C5: a sub-fetch that failed with ApiFailure or Unauthorized leaves its  *)
(* cache entry as it was when the cycle started, data and timestamp, or    *)
(* absent; and an ODOMETER or BATTERY entry changes only in the step in    *)
(* which the query for it succeeded.                                       *)
Failed(o) == o \in {"ApiFailure", "Unauthorized"}

StaleKept ==
    \A p \in Refreshing :
        /\ Failed(cyc[p].sodo) =>
              Snap(cache_data_by_vin, rvin[p], ODO_METER_DATA) = cyc[p].pre_odo
        /\ Failed(cyc[p].sbat) =>
              Snap(cache_data_by_vin, rvin[p], BATTERY_DATA) = cyc[p].pre_bat

(* the v2 endpoint's status tells how the query that ended in this step   *)
(* went, unless the query raised an unclassified error                     *)
QueryEnded(p, at) == pc[p] = at /\ pc'[p] # at
QuerySucceeded(p) ==
    /\ latest_call_code_2' = Some(200)
    /\ ~(pc'[p] = "idle" /\ IsLast("get_ev_data", "raised", "Other")')

InventorySucceeded ==
    latest_call_code' = Some(200) /\ ~IsLast("async_init", "raised", "Other")'

WrittenOnSuccessOnly ==
    \A v \in Vins :
        /\ Snap(cache_data_by_vin', v, ODO_METER_DATA) # Snap(cache_data_by_vin, v, ODO_METER_DATA)
              => \E p \in Procs : QueryEnded(p, "odo") /\ rvin[p] = v /\ QuerySucceeded(p)
        /\ Snap(cache_data_by_vin', v, BATTERY_DATA) # Snap(cache_data_by_vin, v, BATTERY_DATA)
              => \E p \in Procs : QueryEnded(p, "bat") /\ rvin[p] = v /\ QuerySucceeded(p)
        /\ Snap(cache_data_by_vin', v, CAR_INFO_DATA) # Snap(cache_data_by_vin, v, CAR_INFO_DATA)
              => ipc = "vehicle" /\ ipc' = "idle" /\ InventorySucceeded

(* the cycle of p ends in this step: its entries against the snapshot *)
EndsStale ==
    \A p \in Procs :
        (pc[p] # "idle" /\ pc'[p] = "idle") =>
            /\ (Failed(cyc[p].sodo) \/ (pc[p] = "odo" /\ ~QuerySucceeded(p))) =>
                  Snap(cache_data_by_vin', rvin[p], ODO_METER_DATA) = cyc[p].pre_odo
            /\ (Failed(cyc[p].sbat) \/ (pc[p] = "bat" /\ ~QuerySucceeded(p))) =>
                  Snap(cache_data_by_vin', rvin[p], BATTERY_DATA) = cyc[p].pre_bat

C5_StalenessPreserved ==
    /\ []StaleKept
    /\ [][WrittenOnSuccessOnly /\ EndsStale]_vars

C5_Witness ==
    \E p \in Procs :
        /\ pc[p] = "bat"
        /\ cyc[p].sodo = "ApiFailure"
        /\ cyc[p].pre_odo # None
        /\ cyc[p].pre_odo[1].data # PyNone
        /\ Snap(cache_data_by_vin, rvin[p], ODO_METER_DATA) = cyc[p].pre_odo

(* C7: in a cycle every sub-fetch that ended Unauthorized has caused one   *)
(* get_token() call, and the odometer and the battery query are each       *)
(* issued at most once.                                                    *)
C7_UnauthorizedOneRefresh ==
    \A p \in Procs :
        /\ cyc[p].reauth = cyc[p].unauth
        /\ cyc[p].odo <= 1
        /\ cyc[p].bat <= 1
        /\ pc[p] \in {"odo_reauth", "bat_reauth"} => cyc[p].reauth >= 1

C7_Witness ==
    \E p \in Procs :
        /\ pc[p] = "bat"
        /\ cyc[p].sodo = "Unauthorized"
        /\ cyc[p].reauth = 1
        /\ cyc[p].odo = 1

----------------------------------------------------------------------------
(* Properties of async_init and of the vehicle list *)

(* C8: async_init raises whenever it cannot complete: it returns normally  *)
(* only after the loop over the inventory.                                 *)
C8_InitSurfacesFailures ==
    (last.op = "async_init" /\ last.how = "returned") => last.why = "done"

(* the inventory VINs that pass the configured subset, in inventory order *)
Configured(v) == configured_vins = {} \/ v \in configured_vins
ExpectedVins == SelectSeq(inventory, Configured)

(* field names and flags the cache is probed with *)
ProbeFieldNames == {Some(<<"a", "/", "b">>), Some(<<"a">>), Some(Kvin)}
Probe(v, kind) ==
    {get_cache_data(cache_data_by_vin, now, v, Some(kind), f, skip_cache) :
        f \in ProbeFieldNames, skip_cache \in BOOLEAN}

InitCompletes == ipc = "vehicle" /\ ipc' = "idle" /\ IsLast("async_init", "returned", "done")'

VinsFiltered ==
    /\ vins = <<>> \/ vins = ExpectedVins
    /\ \A v \in Vins : ~Configured(v) =>
          /\ ~HasEntry(cache_data_by_vin, v, CAR_INFO_DATA)
          /\ Probe(v, CAR_INFO_DATA) = {PyNone}
          /\ \A kind \in {ODO_METER_DATA, BATTERY_DATA} :
                ~HasEntry(cache_data_by_vin, v, kind) => Probe(v, kind) = {PyNone}

VinsSteps ==
    /\ InitCompletes => vins' = ExpectedVins
    /\ vins # <<>> => vins' = vins
    /\ \A v \in Vins, kind \in {ODO_METER_DATA, BATTERY_DATA} :
          (~HasEntry(cache_data_by_vin, v, kind) /\ HasEntry(cache_data_by_vin', v, kind))
             => \E p \in Procs : rvin[p] = v /\ pc[p] \in {"odo", "bat"}

NoDataStep ==
    (ipc = "vehicle" /\ ipc' = "idle" /\ InventorySucceeded
        /\ ~IsLast("async_init", "returned", "done")')
    => /\ IsLast("async_init", "raised", "NoDataFailure")'
       /\ UNCHANGED <<car_data_by_vin, cache_data_by_vin>>

EmptyInventory ==
    /\ inventory = <<>> =>
          /\ vins = <<>>
          /\ \A v \in Vins : ~HasEntry(cache_data_by_vin, v, CAR_INFO_DATA)
    /\ inventory = <<>> => ~(last.op = "async_init" /\ last.how = "returned"
                              /\ last.why # "no_token")
    /\ last.op = "get_ev_data" => last.why # "NoDataFailure"

C10_EmptyInventory == []EmptyInventory /\ [][NoDataStep]_vars

C10_Witness ==
    /\ inventory = <<>>
    /\ IsLast("async_init", "raised", "NoDataFailure")
    /\ latest_call_code = Some(200)
    /\ vins = <<>>

----------------------------------------------------------------------------
(* The readers as functions of the cache table and the clock: SpecRead     *)
(* draws a cache table the fetchers can have built and an instant, and     *)
(* calls the readers on it with every argument.                            *)
StoreInstants == {0, 1}
ReadInstants == {0, CACHE_TIME - 1, CACHE_TIME, CACHE_TIME + 1}

AfterInit == cache_store(EmptyDict, "V1", CAR_INFO_DATA, CarRecord("V1"), 0)
ReadCaches ==
    {EmptyDict, AfterInit}
    \cup {cache_store(AfterInit, v, ODO_METER_DATA, d, t) :
             v \in Vins, d \in Payloads, t \in StoreInstants}

InitRead ==
    /\ now \in ReadInstants
    /\ cache_data_by_vin \in ReadCaches
    /\ \A v \in DOMAIN cache_data_by_vin : \A k \in DOMAIN cache_data_by_vin[v] :
          cache_data_by_vin[v][k].timestamp <= now
    /\ ticks = 0
    /\ ops = 0
    /\ inventory = <<"V1", "V2">>
    /\ configured_vins = {"V1"}
    /\ updating = FALSE
    /\ next_update = None
    /\ completed_at = None
    /\ completed_vin = NoVin
    /\ last_vin = NoVin
    /\ latest_call_code = None
    /\ latest_call_code_2 = None
    /\ access_token = FALSE
    /\ token_expiry = None
    /\ car_data_by_vin = <<>>
    /\ pc = [p \in Procs |-> "idle"]
    /\ rvin = [p \in Procs |-> NoVin]
    /\ cyc = [p \in Procs |-> NoCycle]
    /\ ipc = "idle"
    /\ last = NoResult
    /\ lastRead = NoRead

(* a client makes reader calls and drops their results (they still leave   *)
(* their mark on the table), then keeps the result of one call             *)
NextRead ==
    \/ \E vin \in Vins, query \in ReadQueries, field_name \in ReadFieldNames,
          skip_cache \in BOOLEAN, keep \in BOOLEAN :
          /\ lastRead = NoRead
          /\ ReadCache(vin, query, field_name, skip_cache, keep)
    \/ \E vin \in Vins, query \in ReadQueries, field_name \in ReadFieldNames,
          keep \in BOOLEAN :
          /\ lastRead = NoRead
          /\ ReadLatest(vin, query, field_name, keep)

SpecRead == InitRead /\ [][NextRead]_vars

(* the entry a reader call was about, if there is one with data *)
ReadHit ==
    /\ lastRead.op # "none"
    /\ lastRead.query # None
    /\ HasEntry(cache_data_by_vin, lastRead.vin, lastRead.query[1])
    /\ cache_data_by_vin[lastRead.vin][lastRead.query[1]].data # PyNone
ReadEntry == cache_data_by_vin[lastRead.vin][lastRead.query[1]]
ReadValue == _get_field_name_value(lastRead.field_name, ReadEntry.data)

(* C6: for an entry with data, get_cache_data without skip_cache returns   *)
(* None when timestamp + ttl <= now and the resolved field value when      *)
(* timestamp + ttl > now; with skip_cache it returns the resolved field    *)
(* value at every age.                                                     *)
C6_TtlBoundary ==
    (ReadHit /\ lastRead.op = "get_cache_data") =>
        /\ (~lastRead.skip_cache /\ ReadEntry.timestamp + CACHE_TIME <= now)
              => lastRead.ret = PyNone
        /\ (~lastRead.skip_cache /\ ReadEntry.timestamp + CACHE_TIME > now)
              => lastRead.ret = ReadValue
        /\ lastRead.skip_cache => lastRead.ret = ReadValue

C6_Witness ==
    /\ ReadHit
    /\ lastRead.op = "get_cache_data"
    /\ ~lastRead.skip_cache
    /\ ReadEntry.timestamp + CACHE_TIME = now
    /\ ReadValue = PyInt(5)
    /\ lastRead.ret = PyNone

----------------------------------------------------------------------------
(* Properties of the two readers, under SpecRead *)

(* the table as it is when (vin, query) was never fetched *)
NeverFetched(cache, vin, query) ==
    [v \in DOMAIN cache |->
        IF v = vin THEN [k \in DOMAIN cache[v] \ {query} |-> cache[v][k]]
        ELSE cache[v]]

(* the last reader call was about an entry whose data is None *)
ReadKnownEmpty ==
    /\ lastRead.op # "none"
    /\ lastRead.query # None
    /\ HasEntry(cache_data_by_vin, lastRead.vin, lastRead.query[1])
    /\ cache_data_by_vin[lastRead.vin][lastRead.query[1]].data = PyNone

(* what the same call returns when the entry does not exist *)
MissingResult ==
    LET cache == NeverFetched(cache_data_by_vin, lastRead.vin, lastRead.query[1])
    IN  IF lastRead.op = "get_cache_data"
        THEN get_cache_data(cache, now, lastRead.vin, lastRead.query,
                            lastRead.field_name, lastRead.skip_cache)
        ELSE get_latest_data(cache, lastRead.vin, lastRead.query, lastRead.field_name)

(* C11: a reader called on an entry whose data is None returns a result    *)
(* that differs from what it returns when the entry does not exist, with   *)
(* and without skip_cache.                                                 *)
C11_KnownEmptyDistinct == ReadKnownEmpty => lastRead.ret # MissingResult

(* C12: get_latest_data returns what get_cache_data returns for the same   *)
(* vin, query and field name with skip_cache false, whatever the table     *)
(* and the clock.                                                          *)
C12_ReadersAgree ==
    (lastRead.op = "get_latest_data" /\ lastRead.query # None) =>
        lastRead.ret = get_cache_data(cache_data_by_vin, now, lastRead.vin,
                                      lastRead.query, lastRead.field_name, FALSE)

(* C13: a reader call (every step of SpecRead is one) leaves the cache     *)
(* table, the vehicle records, next_update and the lock as they were.      *)
C13_ReadersNeverMutate ==
    [][UNCHANGED <<cache_data_by_vin, car_data_by_vin, next_update, updating>>]_vars

----------------------------------------------------------------------------
(* _get_field_name_value as a function of its arguments: SpecPath calls it *)
(* with every field name and every decoded value of a bounded shape.       *)
Keys == {Ka, Kb}
Leaves == {PyInt(5), PyStr("x")}
DictsOver(values) == {PyDict(f) : f \in UNION {[K -> values] : K \in SUBSET Keys}}
Datas == {PyNone} \cup Leaves \cup DictsOver({PyNone} \cup Leaves \cup DictsOver(Leaves))

Resolve(field_name, data) ==
    /\ lastRead' = [op |-> "_get_field_name_value", field_name |-> field_name,
                    data |-> data, ret |-> _get_field_name_value(field_name, data)]
    /\ UNCHANGED <<EnvVars, RunVars, InitVars, AuthVars, CodeVars, RefreshVars,
                   car_data_by_vin, cache_data_by_vin, last>>

InitPath == Init /\ inventory = <<>>

NextPath ==
    \E field_name \in ReadFieldNames, data \in Datas :
        /\ lastRead = NoRead
        /\ Resolve(field_name, data)

SpecPath == InitPath /\ [][NextPath]_vars

(* the keys of a path: the pieces between its slashes *)
Cuts(s) == {0, Len(s) + 1} \cup {i \in 1..Len(s) : s[i] = "/"}
Cut(s, i) == CHOOSE c \in Cuts(s) : Cardinality({d \in Cuts(s) : d < c}) = i - 1
PathKeys(s) ==
    [i \in 1..(Cardinality(Cuts(s)) - 1) |-> SubSeq(s, Cut(s, i) + 1, Cut(s, i + 1) - 1)]

(* the values met on the way down: None (<<>>) once a key is absent or    *)
(* the value at hand is no mapping                                        *)
Descent(ks, data) ==
    LET at[i \in 0..Len(ks)] ==
            IF i = 0 THEN Some(data)
            ELSE IF at[i - 1] # None /\ isdict(at[i - 1][1])
                    /\ ks[i] \in DOMAIN at[i - 1][1].m
                 THEN Some(at[i - 1][1].m[ks[i]])
                 ELSE None
    IN  at[Len(ks)]

Resolved(name, data) ==
    LET ks == IF \E i \in 1..Len(name) : name[i] = "/" THEN PathKeys(name) ELSE <<name>>
        end == Descent(ks, data)
    IN  IF end = None THEN PyNone ELSE end[1]

(* C14: _get_field_name_value applies the keys of a '/'-delimited path one *)
(* after the other and gives None as soon as a key is absent or the value  *)
(* at hand is no mapping, looks a path without '/' up as one key, and      *)
(* never raises.                                                           *)
C14_FieldPathResolution ==
    lastRead.op = "_get_field_name_value" =>
        /\ lastRead.ret.t # "raise"
        /\ (lastRead.field_name = None \/ lastRead.data = PyNone) => lastRead.ret = PyNone
        /\ (lastRead.field_name # None /\ lastRead.data # PyNone) =>
              lastRead.ret = Resolved(lastRead.field_name[1], lastRead.data)

C14_Witness ==
    /\ lastRead.op = "_get_field_name_value"
    /\ lastRead.field_name = Some(<<"a", "/", "b">>)
    /\ lastRead.data = PyDict(Ka :> PyDict(Kb :> PyInt(5)))
    /\ lastRead.ret = PyInt(5)

----------------------------------------------------------------------------
(* Further properties of get_ev_data, under Spec *)
Classified == {"ok", "Unauthorized", "ApiFailure"}
StatusOf(o) == IF o = "ok" THEN 200 ELSE IF o = "Unauthorized" THEN 401 ELSE 500
CycleEnds(p) == pc[p] # "idle" /\ pc'[p] = "idle"

(* C15: a GraphQL call that ended classified leaves 200, 401 or 500 as the *)
(* latest call code of its endpoint and the other endpoint's code as it    *)
(* was; when a cycle has completed, latest_call_code_2 is the code of the  *)
(* battery query, the last one issued.                                     *)
StatusRecorded ==
    /\ (ipc = "vehicle" /\ ipc' # ipc) =>
          \A o \in Classified, cars \in InventoryResults(inventory) :
              InitVehicleDone(o, cars) =>
                  /\ latest_call_code' = Some(StatusOf(o))
                  /\ latest_call_code_2' = latest_call_code_2
    /\ \A p \in Procs :
          (pc[p] \in {"odo", "bat"} /\ pc'[p] # pc[p]) =>
              \A o \in Classified, data \in Payloads :
                  (OdoDone(p, o, data) \/ BatDone(p, o, data)) =>
                      /\ latest_call_code_2' = Some(StatusOf(o))
                      /\ latest_call_code' = latest_call_code
    /\ \A p \in Procs :
          (pc[p] = "bat_reauth" /\ CycleEnds(p)
             /\ IsLast("get_ev_data", "returned", "completed")') =>
              latest_call_code_2' = Some(StatusOf(cyc[p].sbat))

C15_LatestCallStatus == [][StatusRecorded]_vars

C15_Witness ==
    /\ IsLast("get_ev_data", "returned", "completed")
    /\ latest_call_code = Some(200)
    /\ latest_call_code_2 = Some(401)

(* C16: a get_ev_data that got the lock and is not throttled returns at    *)
(* once, issuing no query, with the cache table and next_update as they    *)
(* were and the lock free, when there is no token expiry; it awaits        *)
(* get_token(refresh=True) before any query when the token expires in      *)
(* less than 300 seconds, and issues the odometer query with no token call *)
(* otherwise; a forced refresh that raises PolestarAuthException ends the  *)
(* invocation in the same way, and one that returns is followed by the     *)
(* odometer query.                                                         *)
PassedThrottle == ~updating /\ ~(next_update # None /\ next_update[1] > now)

TokenChecked ==
    /\ (StartStep /\ PassedThrottle /\ token_expiry = None) =>
          /\ pc' = pc
          /\ IsLast("get_ev_data", "returned", "no_expiry")'
          /\ UNCHANGED <<cache_data_by_vin, next_update>>
          /\ ~updating'
    /\ (StartStep /\ PassedThrottle /\ token_expiry # None) =>
          \E p \in Procs :
              /\ pc[p] = "idle"
              /\ cyc'[p].bat = 0
              /\ IF token_expiry[1] - now < TOKEN_MARGIN
                 THEN pc'[p] = "token" /\ cyc'[p].forced = 1 /\ cyc'[p].odo = 0
                 ELSE pc'[p] = "odo" /\ cyc'[p].forced = 0 /\ cyc'[p].odo = 1
    /\ \A p \in {q \in Procs : pc[q] = "token" \/ pc'[q] = "odo"} :
          /\ TokenDone(p, "AuthFailure") =>
                /\ pc'[p] = "idle"
                /\ IsLast("get_ev_data", "returned", "auth_abort")'
                /\ cyc[p].odo = 0 /\ cyc[p].bat = 0
                /\ UNCHANGED <<cache_data_by_vin, next_update>>
                /\ ~updating'
          /\ TokenDone(p, "ok") =>
                /\ pc'[p] = "odo"
                /\ cyc[p].odo = 0 /\ cyc'[p].odo = 1 /\ cyc'[p].bat = 0
          /\ (pc'[p] = "odo" /\ pc[p] # "odo") => pc[p] \in {"idle", "token"}

C16_TokenCheck == [][TokenChecked]_vars

C16_Witness ==
    /\ IsLast("get_ev_data", "returned", "auth_abort")
    /\ token_expiry # None
    /\ token_expiry[1] - now < TOKEN_MARGIN
    /\ ~updating
    /\ next_update = None

(* C17: the battery query is issued after the odometer query of the same   *)
(* cycle, and an invocation whose odometer query ended with a result,      *)
(* Unauthorized or ApiFailure goes on to the battery query.                *)
OdoThenBat ==
    \A p \in Procs :
        /\ (pc'[p] = "bat" /\ pc[p] # "bat") =>
              pc[p] \in {"odo", "odo_reauth"} /\ cyc[p].odo = 1 /\ cyc[p].bat = 0
        /\ (pc[p] \in {"odo", "odo_reauth"} /\ pc'[p] # pc[p]
              /\ ~(pc'[p] = "idle" /\ IsLast("get_ev_data", "raised", "Other")')) =>
              pc'[p] \in {"bat", "odo_reauth"}

C17_OdoThenBat == [][OdoThenBat]_vars

(* C18: a cycle that got through both sub-fetches sets next_update to the  *)
(* time of its end plus next_update_delay, whatever the outcomes of the    *)
(* two queries; next_update changes in no other step, and an invocation    *)
(* that ends in any other way leaves it as it was.                         *)
CoolDownArmed ==
    /\ \A p \in Procs :
          (CycleEnds(p) /\ pc[p] \in {"bat", "bat_reauth"} /\ last'.how = "returned") =>
              /\ IsLast("get_ev_data", "returned", "completed")'
              /\ next_update' = Some(now + next_update_delay)
    /\ \A p \in Procs :
          (pc[p] = "bat" /\ pc'[p] # pc[p]) =>
              \A o \in {"ok", "ApiFailure"}, data \in Payloads :
                  BatDone(p, o, data) => next_update' = Some(now + next_update_delay)
    /\ next_update' # next_update =>
          \E p \in Procs :
              /\ CycleEnds(p)
              /\ pc[p] \in {"bat", "bat_reauth"}
              /\ IsLast("get_ev_data", "returned", "completed")'
    /\ \A p \in Procs :
          (CycleEnds(p) /\ ~IsLast("get_ev_data", "returned", "completed")') =>
              UNCHANGED next_update
    /\ (StartStep /\ pc' = pc) => UNCHANGED next_update

C18_CoolDownArmed == [][CoolDownArmed]_vars

(* both queries of every cycle so far failed, and the cool-down is armed *)
C18_Witness ==
    /\ IsLast("get_ev_data", "returned", "completed")
    /\ next_update = Some(now + next_update_delay)
    /\ latest_call_code_2 = Some(500)
    /\ \A v \in Vins : /\ ~HasEntry(cache_data_by_vin, v, ODO_METER_DATA)
                       /\ ~HasEntry(cache_data_by_vin, v, BATTERY_DATA)

(* C20: a step of get_ev_data changes no cache entry but the ODOMETER and  *)
(* BATTERY entries of its own vin, adds no key to the table but that vin,  *)
(* and leaves the vehicle records and vins as they were; no step removes a *)
(* cache entry.                                                            *)
GetEvStep == StartStep \/ \E p \in Procs : pc'[p] # pc[p]

WritesOwnEntries ==
    /\ cache_data_by_vin' # cache_data_by_vin =>
          \A v \in Vins, k \in Kinds :
              HasEntry(cache_data_by_vin, v, k) => HasEntry(cache_data_by_vin', v, k)
    /\ GetEvStep =>
          /\ car_data_by_vin' = car_data_by_vin
          /\ vins' = vins
          /\ cache_data_by_vin' # cache_data_by_vin => \A v \in Vins :
                /\ Snap(cache_data_by_vin', v, CAR_INFO_DATA)
                      = Snap(cache_data_by_vin, v, CAR_INFO_DATA)
                /\ Snap(cache_data_by_vin', v, ODO_METER_DATA)
                      # Snap(cache_data_by_vin, v, ODO_METER_DATA)
                      => \E p \in Procs : pc[p] = "odo" /\ rvin[p] = v
                /\ Snap(cache_data_by_vin', v, BATTERY_DATA)
                      # Snap(cache_data_by_vin, v, BATTERY_DATA)
                      => \E p \in Procs : pc[p] = "bat" /\ rvin[p] = v
                /\ (v \in DOMAIN cache_data_by_vin' /\ v \notin DOMAIN cache_data_by_vin)
                      => \E p \in Procs : pc[p] \in {"odo", "bat"} /\ rvin[p] = v

InFlightFor(v) == \E q \in Procs : pc[q] # "idle" /\ rvin[q] = v

PerClient ==
    \A b \in Vins :
        (/\ StartStep
         /\ last_vin' = b
         /\ \/ InCoolDown /\ completed_vin \in Vins \ {b}
            \/ \E a \in Vins \ {b} : InFlightFor(a)) =>
            /\ pc' = pc
            /\ last'.op = "get_ev_data" /\ last'.how = "returned"
            /\ last'.why \in {"busy", "throttled"}
            /\ (\E a \in Vins \ {b} : InFlightFor(a)) => last'.why = "busy"
            /\ UNCHANGED <<cache_data_by_vin, next_update, AuthVars, CodeVars>>

C19_PerClient == [][PerClient]_vars

C19_Witness ==
    /\ IsLast("get_ev_data", "returned", "throttled")
    /\ InCoolDown
    /\ completed_vin = "V1"
    /\ last_vin = "V2"
    /\ HasEntry(cache_data_by_vin, "V1", ODO_METER_DATA)
    /\ ~HasEntry(cache_data_by_vin, "V2", ODO_METER_DATA)
    /\ ~HasEntry(cache_data_by_vin, "V2", BATTERY_DATA)
====
